---- MODULE Spec2Model ----
(***************************************************************************)
(* A model of nuke_flow: the recursive directory walker that feeds         *)
(* JavaScript files to a jscodeshift round trip, its skip rules (directory *)
(* names and glob patterns), its statistics, and the rewrite rules of      *)
(* src/transforms.                                                         *)
(*                                                                         *)
(* Strings are TLA+ strings; TLC evaluates Len, SubSeq and \o on them, so  *)
(* the string code of utils (replace chains, path arithmetic) is modelled  *)
(* character by character.                                                 *)
(***************************************************************************)
EXTENDS Integers, Sequences, FiniteSets, TLC

VARIABLES
    argv,        \* process.argv[2]: the input path (a sequence of names) or NoArg
    cwd,         \* process.cwd(), a sequence of names
    variant,     \* which of the two walker files runs: "part_000" or "part_001"
    reversed,    \* whether readdir yields a directory's listing reversed
    pc,          \* "start", "processPath", "walk", "exited"; "glob", "globDone";
                 \* "rules"; "path", "pathDone"
    stack,       \* the processDirectory frames in progress, innermost last
    dirStats,    \* dirStats of every processDirectory call made, by directory
    globalStats, \* the module-level globalStats object
    fs,          \* the files on disk: path -> text
    inFlight,    \* the paths whose processFile call has started and not settled
    calls,       \* history: every processFile call that settled, in order
    dirCalls,    \* history: every processDirectory call, in order
    printed,     \* history: the directories whose summary was printed
    reported,    \* whether the final "Global Processing Complete" report ran
    exitCode,    \* the exit code of the process: 0 or 1, -1 while it runs
    fatalError,  \* what the top-level catch printed as fatal error, or "none"
    faults,      \* number of I/O failures the environment has injected so far
    failedDirs,  \* history: the directories whose readdir threw, and when
    gPattern,    \* glob harness: the pattern handed to matchGlob
    gText,       \* glob harness: the text handed to matchGlob
    gResult,     \* glob harness: what matchGlob returned, once pc = "globDone"
    rIn,         \* rule harness: the document as it was parsed
    rDoc,        \* rule harness: the document (root), which the rules mutate
    rLast,       \* rule harness: the rule applied last, "none" before the first
    rRepeat,     \* rule harness: whether the rule before the last was the same
    tPath,       \* path harness: the path handed to createTransformedFilePath
    tResult      \* path harness: what it returned, once pc = "pathDone"

vars == <<argv, cwd, variant, reversed, pc, stack, dirStats, globalStats, fs,
          inFlight, calls, dirCalls, printed, reported, exitCode, fatalError, faults, failedDirs,
          gPattern, gText, gResult, rIn, rDoc, rLast, rRepeat, tPath, tResult>>

globVars == <<gPattern, gText, gResult>>

ruleVars == <<rIn, rDoc, rLast, rRepeat>>

pathVars == <<tPath, tResult>>

harnessVars == <<globVars, ruleVars, pathVars>>

(***************************************************************************)
(* Bounds of the model.                                                    *)
(***************************************************************************)
\* the most I/O failures (readFile, toSource, writeFile, readdir) one run injects
MaxFaults == 2
\* the most segments of a path handed to the glob harness
MaxSegs == 3
\* the most import declarations of a document handed to the rule harness
MaxImports == 1
\* the most specifiers of the named export of such a document
MaxSpecifiers == 2
\* the most directories above the file name handed to the path harness
MaxDepth == 2

(***************************************************************************)
(* String helpers: what String.prototype.replace(/x/g, y), startsWith,     *)
(* RegExp.test (unanchored) and Array.join do.                             *)
(***************************************************************************)
Ch(s, i) == SubSeq(s, i, i)

StartsWith(s, p) == Len(s) >= Len(p) /\ SubSeq(s, 1, Len(p)) = p

EndsWith(s, p) == Len(s) >= Len(p) /\ SubSeq(s, Len(s) - Len(p) + 1, Len(s)) = p

Contains(s, p) == \E i \in 1..(Len(s) - Len(p) + 1) : SubSeq(s, i, i + Len(p) - 1) = p

RECURSIVE ReplaceAll(_, _, _)
\* s.replace(/pat/g, rep) for a literal pat: leftmost, non-overlapping
ReplaceAll(s, pat, rep) ==
    IF Len(s) < Len(pat) THEN s
    ELSE IF SubSeq(s, 1, Len(pat)) = pat
         THEN rep \o ReplaceAll(SubSeq(s, Len(pat) + 1, Len(s)), pat, rep)
         ELSE Ch(s, 1) \o ReplaceAll(SubSeq(s, 2, Len(s)), pat, rep)

RECURSIVE JoinSlash(_)
\* segs.join('/')
JoinSlash(segs) ==
    IF Len(segs) = 0 THEN ""
    ELSE IF Len(segs) = 1 THEN segs[1]
    ELSE segs[1] \o "/" \o JoinSlash(Tail(segs))

ToLowerCh(c) ==
    CASE c = "J" -> "j"
      [] c = "S" -> "s"
      [] c = "X" -> "x"
      [] c = "M" -> "m"
      [] c = "D" -> "d"
      [] OTHER -> c

RECURSIVE ToLowerCase(_)
\* String.prototype.toLowerCase over the letters the model's names use
ToLowerCase(s) ==
    IF Len(s) = 0 THEN "" ELSE ToLowerCh(Ch(s, 1)) \o ToLowerCase(SubSeq(s, 2, Len(s)))

(***************************************************************************)
(* constants: SKIP_DIRS and SKIP_PATHS.                                    *)
(***************************************************************************)
SKIP_DIRS == <<"node_modules", ".git", "dist", "build", "coverage", ".next",
               "__pycache__">>

SKIP_PATHS == <<"**/*.test.js", "**/*.spec.js", "**/test/**", "**/tests/**",
                "**/__tests__/**", "**/coverage/**", "**/node_modules/**",
                "**/.git/**">>

(***************************************************************************)
(* matchGlob: the replace chain that builds the regular expression source, *)
(* then new RegExp(`^...$`).test(text).  The regular expression is parsed  *)
(* into atoms the way the RegExp constructor reads the source text: "\c"   *)
(* is the literal c, "[^/]" is the class of everything but "/", "." is any *)
(* character, anything else is itself, and a following "*" stars the atom. *)
(***************************************************************************)
globToRegex(pattern) ==
    LET s1 == ReplaceAll(pattern, "**", "<<<DOUBLESTAR>>>")
        s2 == ReplaceAll(s1, "*", "[^/]*")
        s3 == ReplaceAll(s2, "<<<DOUBLESTAR>>>", ".*")
        s4 == ReplaceAll(s3, "?", "[^/]")
        s5 == ReplaceAll(s4, ".", "\\.")
        s6 == ReplaceAll(s5, "+", "\\+")
    IN  s6

RECURSIVE RegexAtoms(_)
RegexAtoms(src) ==
    IF Len(src) = 0 THEN <<>>
    ELSE LET esc   == Ch(src, 1) = "\\" /\ Len(src) >= 2
             class == StartsWith(src, "[^/]")
             width == IF esc THEN 2 ELSE IF class THEN 4 ELSE 1
             star  == Len(src) > width /\ Ch(src, width + 1) = "*"
             atom  == [kind |-> IF esc THEN "lit"
                                ELSE IF class THEN "notslash"
                                ELSE IF Ch(src, 1) = "." THEN "any"
                                ELSE "lit",
                       ch   |-> IF esc THEN Ch(src, 2) ELSE Ch(src, 1),
                       star |-> star]
             rest  == SubSeq(src, width + (IF star THEN 2 ELSE 1), Len(src))
         IN  <<atom>> \o RegexAtoms(rest)

AtomAccepts(atom, c) ==
    CASE atom.kind = "lit"      -> c = atom.ch
      [] atom.kind = "notslash" -> c # "/"
      [] OTHER                  -> TRUE

RECURSIVE RegexMatchFrom(_, _, _, _)
\* do atoms k.. match text from position j to its end (the ^...$ anchors)
RegexMatchFrom(atoms, k, text, j) ==
    IF k > Len(atoms) THEN j > Len(text)
    ELSE IF atoms[k].star
         THEN \/ RegexMatchFrom(atoms, k + 1, text, j)
              \/ /\ j <= Len(text)
                 /\ AtomAccepts(atoms[k], Ch(text, j))
                 /\ RegexMatchFrom(atoms, k, text, j + 1)
         ELSE /\ j <= Len(text)
              /\ AtomAccepts(atoms[k], Ch(text, j))
              /\ RegexMatchFrom(atoms, k + 1, text, j + 1)

\* new RegExp(`^${regexPattern}$`)
compileGlob(pattern) == RegexAtoms(globToRegex(pattern))

matchGlob(pattern, text) == RegexMatchFrom(compileGlob(pattern), 1, text, 1)

\* the regular expressions matchGlob builds for SKIP_PATHS; it builds the same
\* one on every call, so they are kept
SkipRegexes == [n \in 1..Len(SKIP_PATHS) |-> compileGlob(SKIP_PATHS[n])]

\* SKIP_PATHS.some((pattern) => matchGlob(pattern, filePath))
shouldSkipPath(filePath) ==
    \E n \in 1..Len(SKIP_PATHS) : RegexMatchFrom(SkipRegexes[n], 1, filePath, 1)

shouldSkipDirectory(dirName) ==
    \/ \E n \in 1..Len(SKIP_DIRS) : SKIP_DIRS[n] = dirName
    \/ StartsWith(dirName, ".")

(***************************************************************************)
(* node:path on paths kept as sequences of names (absolute, normalised):   *)
(* join(dir, name) is Append(dir, name), dirname drops the last name.      *)
(***************************************************************************)
RECURSIVE LastDot(_, _)
\* the index of the last "." of name at or before i, 0 when there is none
LastDot(name, i) ==
    IF i = 0 THEN 0 ELSE IF Ch(name, i) = "." THEN i ELSE LastDot(name, i - 1)

\* a mutant of extname: the extension starts at the first dot after the
\* leading character
extnameFromFirstDot(name) ==
    LET dots == {i \in 2..Len(name) : Ch(name, i) = "."}
    IN  IF dots = {} \/ name = ".." THEN ""
        ELSE SubSeq(name, CHOOSE i \in dots : \A j \in dots : i <= j, Len(name))

\* path.extname on a base name: from the last dot; "" when there is no dot or
\* the only dot leads the name
extname(name) ==
    LET k == LastDot(name, Len(name))
    IN  IF k <= 1 \/ name = ".." THEN "" ELSE SubSeq(name, k, Len(name))

\* path.basename(p, ext) on a base name: the suffix ext removed
basenameNoExt(name, ext) ==
    IF ext # "" /\ name # ext /\ EndsWith(name, ext)
    THEN SubSeq(name, 1, Len(name) - Len(ext))
    ELSE name

dirname(path) == SubSeq(path, 1, Len(path) - 1)

basename(path) == path[Len(path)]

isJSFile(filePath) ==
    LET ext == ToLowerCase(extname(basename(filePath)))
    IN  ext = ".js" \/ ext = ".jsx"

\* a mutant of createTransformedFilePath: the "_transformed" suffix is lost
createTransformedFilePathInPlace(originalPath) ==
    LET dir            == dirname(originalPath)
        ext            == extname(basename(originalPath))
        nameWithoutExt == basenameNoExt(basename(originalPath), ext)
    IN  Append(dir, nameWithoutExt \o ext)

createTransformedFilePath(originalPath) ==
    LET dir            == dirname(originalPath)
        ext            == extname(basename(originalPath))
        nameWithoutExt == basenameNoExt(basename(originalPath), ext)
    IN  Append(dir, nameWithoutExt \o "_transformed" \o ext)

RECURSIVE CommonPrefix(_, _)
CommonPrefix(a, b) ==
    IF Len(a) = 0 \/ Len(b) = 0 \/ a[1] # b[1] THEN 0
    ELSE 1 + CommonPrefix(Tail(a), Tail(b))

\* path.relative(from, to), as the "/"-joined string the walker hands on
relative(from, to) ==
    LET c   == CommonPrefix(from, to)
        ups == [n \in 1..(Len(from) - c) |-> ".."]
    IN  JoinSlash(ups \o SubSeq(to, c + 1, Len(to)))

(***************************************************************************)
(* Documents: what jscodeshift parses a file into, as far as the rewrite   *)
(* rules look: the comments' texts, the import declarations' importKind,   *)
(* the named-export declarations' exportKind and their specifiers'         *)
(* exportKind ("none" is an absent kind).                                  *)
(***************************************************************************)
FlowDoc ==
    [comments |-> <<" @flow", " helper">>,
     imports  |-> <<"type", "value">>,
     exports  |-> <<[exportKind |-> "type", specifiers |-> <<"none", "type">>]>>]

PlainDoc ==
    [comments |-> <<" helper">>,
     imports  |-> <<"value">>,
     exports  |-> <<[exportKind |-> "value", specifiers |-> <<"none">>]>>]

SourceText(doc) == [kind |-> "source", doc |-> doc]

\* a text the flow parser rejects
Garbage == [kind |-> "garbage"]

\* what a writeFile that failed half way leaves behind
Truncated == [kind |-> "truncated"]

NoText == [kind |-> "none"]

\* j(sourceCode): whether the parser accepts the text
Parses(text) == text.kind = "source"

\* j(sourceCode): the document of a text the parser accepts
Parse(text) == text.doc

\* root.toSource(options): the text of a document
toSource(doc) == SourceText(doc)

IsPragma(comment) ==
    Contains(comment, "@flow") \/ Contains(comment, "@noflow")
        \/ Contains(comment, "$FlowFixMe")

\* a mutant of cleanupAnnotations: only the first matching comment is pruned
cleanupAnnotationsFirstOnly(doc) ==
    LET hits == {n \in 1..Len(doc.comments) : IsPragma(doc.comments[n])}
        first == CHOOSE n \in hits : \A m \in hits : n <= m
    IN  IF hits = {} THEN doc
        ELSE [doc EXCEPT !.comments =
                SubSeq(doc.comments, 1, first - 1)
                    \o SubSeq(doc.comments, first + 1, Len(doc.comments))]

cleanupAnnotations(doc) ==
    [doc EXCEPT !.comments = SelectSeq(doc.comments, LAMBDA c : ~IsPragma(c))]

cleanupImports(doc) ==
    [doc EXCEPT !.imports =
        [n \in 1..Len(doc.imports) |->
            IF doc.imports[n] = "type" \/ doc.imports[n] = "typeof"
            THEN "value" ELSE doc.imports[n]]]

cleanupExportNode(node) ==
    IF node.exportKind # "none" /\ node.exportKind # "value"
    THEN [exportKind |-> "value",
          specifiers |->
            [n \in 1..Len(node.specifiers) |->
                IF node.specifiers[n] # "none" /\ node.specifiers[n] # "value"
                THEN "value" ELSE node.specifiers[n]]]
    ELSE node

cleanupExports(doc) ==
    [doc EXCEPT !.exports =
        [n \in 1..Len(doc.exports) |-> cleanupExportNode(doc.exports[n])]]

\* transforms/index: the pipeline as the repository wires it up; the import
\* and export rules are commented out
transform(text) == toSource(cleanupAnnotations(Parse(text)))

(***************************************************************************)
(* The file tree the runs start from.                                      *)
(***************************************************************************)
NoArg == <<"<no argument>">>

Dirs == {<<"w">>, <<"w", "d.spec.js">>, <<"w", "node_modules">>, <<"w", "sub">>,
         <<"w", "sub", ".git">>, <<"w", "sub", "deep">>}

\* entries that are neither regular files nor directories
Others == {<<"w", "sock">>}

InitialFiles ==
    (<<"w", "a.js">> :> SourceText(FlowDoc))
    @@ (<<"w", "a_transformed.js">> :> SourceText(PlainDoc))
    @@ (<<"w", "b.test.js">> :> SourceText(PlainDoc))
    @@ (<<"w", "notes.md">> :> Garbage)
    @@ (<<"w", "d.spec.js", "f.js">> :> SourceText(PlainDoc))
    @@ (<<"w", "node_modules", "m.js">> :> SourceText(PlainDoc))
    @@ (<<"w", "sub", "c.jsx">> :> Garbage)
    @@ (<<"w", "sub", ".git", "g.js">> :> SourceText(PlainDoc))
    @@ (<<"w", "sub", "deep", "e.JS">> :> SourceText(FlowDoc))

\* the order in which the file system lists each directory's names, every
\* name a run can create included
Listing(dir) ==
    CASE dir = <<"w">> ->
            <<"a.js", "a_transformed.js", "a_transformed_transformed.js",
              "b.test.js", "b.test_transformed.js", "d.spec.js", "node_modules",
              "notes.md", "sock", "sub">>
      [] dir = <<"w", "d.spec.js">> -> <<"f.js", "f_transformed.js">>
      [] dir = <<"w", "node_modules">> -> <<"m.js", "m_transformed.js">>
      [] dir = <<"w", "sub">> -> <<".git", "c.jsx", "c_transformed.jsx", "deep">>
      [] dir = <<"w", "sub", ".git">> -> <<"g.js", "g_transformed.js">>
      [] dir = <<"w", "sub", "deep">> -> <<"e.JS", "e_transformed.JS">>
      [] OTHER -> <<>>

InputPaths ==
    {NoArg, <<"w">>, <<"w", "sub">>, <<"w", "node_modules">>, <<"w", "a.js">>,
     <<"w", "sub", "c.jsx">>, <<"w", "node_modules", "m.js">>, <<"w", "missing">>,
     <<"w", "sock">>}

WorkingDirs == {<<"w">>, <<"w", "sub">>}

\* fs.stat: the kind of what is at a path
KindOf(path) ==
    IF path \in DOMAIN fs THEN "file"
    ELSE IF path \in Dirs THEN "dir"
    ELSE IF path \in Others THEN "other"
    ELSE "missing"

Reverse(s) == [n \in 1..Len(s) |-> s[Len(s) + 1 - n]]

\* readdir(dirPath, {withFileTypes: true}): the entries that exist now
readdir(dirPath) ==
    LET all  == [n \in 1..Len(Listing(dirPath)) |->
                    [name |-> Listing(dirPath)[n],
                     kind |-> KindOf(Append(dirPath, Listing(dirPath)[n]))]]
        here == SelectSeq(all, LAMBDA e : e.kind # "missing")
    IN  IF reversed THEN Reverse(here) ELSE here

(***************************************************************************)
(* Statistics.  part_000 counts JS files only; part_001 also counts every  *)
(* file entry, the non-JS files and the subdirectories.                    *)
(***************************************************************************)
NewGlobalStats ==
    IF variant = "part_000"
    THEN [filesProcessed |-> 0, filesSkipped |-> 0, filesTransformed |-> 0,
          filesWithError |-> 0]
    ELSE [totalFilesEncountered |-> 0, jsFilesFound |-> 0, nonJSFilesSkipped |-> 0,
          directoriesProcessed |-> 0, filesProcessedSuccessfully |-> 0,
          filesWithErrors |-> 0]

NewDirStats ==
    IF variant = "part_000"
    THEN [filesProcessed |-> 0, filesSkipped |-> 0, filesTransformed |-> 0,
          filesWithError |-> 0]
    ELSE [totalFilesEncountered |-> 0, jsFilesFound |-> 0, nonJSFilesSkipped |-> 0,
          subdirectoriesProcessed |-> 0, filesProcessedSuccessfully |-> 0,
          filesWithErrors |-> 0]

\* totalFilesEncountered++ (part_001 only, before the glob check)
CountEncountered(stats) ==
    IF variant = "part_000" THEN stats
    ELSE [stats EXCEPT !.totalFilesEncountered = @ + 1]

\* filesProcessed++ / jsFilesFound++
CountFound(stats) ==
    IF variant = "part_000" THEN [stats EXCEPT !.filesProcessed = @ + 1]
    ELSE [stats EXCEPT !.jsFilesFound = @ + 1]

\* filesTransformed++ / filesProcessedSuccessfully++
CountSuccess(stats) ==
    IF variant = "part_000" THEN [stats EXCEPT !.filesTransformed = @ + 1]
    ELSE [stats EXCEPT !.filesProcessedSuccessfully = @ + 1]

\* filesWithError++ / filesWithErrors++
CountError(stats) ==
    IF variant = "part_000" THEN [stats EXCEPT !.filesWithError = @ + 1]
    ELSE [stats EXCEPT !.filesWithErrors = @ + 1]

\* nonJSFilesSkipped++ (part_001 only; part_000 ignores the file)
CountNonJS(stats) ==
    IF variant = "part_000" THEN stats
    ELSE [stats EXCEPT !.nonJSFilesSkipped = @ + 1]

\* dirStats.subdirectoriesProcessed++ after the recursive call returns
\* (part_001 only)
CountSubdirectory(stats) ==
    IF variant = "part_000" THEN stats
    ELSE [stats EXCEPT !.subdirectoriesProcessed = @ + 1]

\* globalStats.directoriesProcessed++ after the recursive call returns
\* (part_001 only)
CountDirectory(stats) ==
    IF variant = "part_000" THEN stats
    ELSE [stats EXCEPT !.directoriesProcessed = @ + 1]

Succeeded(stats) ==
    IF variant = "part_000" THEN stats.filesTransformed
    ELSE stats.filesProcessedSuccessfully

Failed(stats) ==
    IF variant = "part_000" THEN stats.filesWithError ELSE stats.filesWithErrors

Found(stats) ==
    IF variant = "part_000" THEN stats.filesProcessed ELSE stats.jsFilesFound

Encountered(stats) ==
    IF variant = "part_000" THEN 0 ELSE stats.totalFilesEncountered

(***************************************************************************)
(* processFile.  fault names the I/O step the environment lets fail        *)
(* ("none", "readFile", "toSource", "writeFile", or "writeFileTorn" for a  *)
(* writeFile that fails after it truncated the target); whether the parser *)
(* accepts the text is decided by the text.  The result is the new disk,   *)
(* the new globalStats, whether the call threw, and the history record.    *)
(***************************************************************************)
WriteFs(disk, path, text) ==
    [q \in (DOMAIN disk) \cup {path} |-> IF q = path THEN text ELSE disk[q]]

FaultsOf(filePath) ==
    {"none", "readFile"}
        \cup (IF Parses(fs[filePath])
              THEN {"toSource", "writeFile", "writeFileTorn"} ELSE {})

\* a mutant of processFile: the target is opened for writing (and so
\* truncated) before the text is parsed
processFileOpensEarly(filePath, fault) ==
    LET sourceCode          == fs[filePath]
        transformedCode     == toSource(Parse(sourceCode))
        transformedFilePath == createTransformedFilePath(filePath)
        opened              == WriteFs(fs, transformedFilePath, Truncated)
        call(outcome, src, out) ==
            [path |-> filePath, outcome |-> outcome, source |-> src,
             target |-> transformedFilePath, output |-> out]
    IN  IF fault = "readFile"
        THEN [threw |-> TRUE, fs |-> fs, globalStats |-> globalStats,
              call |-> call("readFailure", NoText, NoText)]
        ELSE IF ~Parses(sourceCode)
        THEN [threw |-> TRUE, fs |-> opened, globalStats |-> CountError(globalStats),
              call |-> call("parseFailure", sourceCode, NoText)]
        ELSE IF fault = "toSource"
        THEN [threw |-> TRUE, fs |-> opened, globalStats |-> CountError(globalStats),
              call |-> call("serializeFailure", sourceCode, NoText)]
        ELSE IF fault \in {"writeFile", "writeFileTorn"}
        THEN [threw |-> TRUE, fs |-> opened, globalStats |-> CountError(globalStats),
              call |-> call("writeFailure", sourceCode, transformedCode)]
        ELSE [threw |-> FALSE,
              fs |-> WriteFs(fs, transformedFilePath, transformedCode),
              globalStats |-> CountSuccess(globalStats),
              call |-> call("success", sourceCode, transformedCode)]

processFile(filePath, fault) ==
    LET sourceCode          == fs[filePath]
        transformedCode     == toSource(Parse(sourceCode))
        transformedFilePath == createTransformedFilePath(filePath)
        call(outcome, src, out) ==
            [path |-> filePath, outcome |-> outcome, source |-> src,
             target |-> transformedFilePath, output |-> out]
    IN  IF fault = "readFile"
        THEN [threw |-> TRUE, fs |-> fs, globalStats |-> globalStats,
              call |-> call("readFailure", NoText, NoText)]
        ELSE IF ~Parses(sourceCode)
        THEN [threw |-> TRUE, fs |-> fs, globalStats |-> CountError(globalStats),
              call |-> call("parseFailure", sourceCode, NoText)]
        ELSE IF fault = "toSource"
        THEN [threw |-> TRUE, fs |-> fs, globalStats |-> CountError(globalStats),
              call |-> call("serializeFailure", sourceCode, NoText)]
        ELSE IF fault = "writeFile"
        THEN [threw |-> TRUE, fs |-> fs, globalStats |-> CountError(globalStats),
              call |-> call("writeFailure", sourceCode, transformedCode)]
        ELSE IF fault = "writeFileTorn"
        THEN [threw |-> TRUE, fs |-> WriteFs(fs, transformedFilePath, Truncated),
              globalStats |-> CountError(globalStats),
              call |-> call("writeFailure", sourceCode, transformedCode)]
        ELSE [threw |-> FALSE,
              fs |-> WriteFs(fs, transformedFilePath, transformedCode),
              globalStats |-> CountSuccess(globalStats),
              call |-> call("success", sourceCode, transformedCode)]

FaultCost(fault) == IF fault = "none" THEN 0 ELSE 1

(***************************************************************************)
(* The run controller: the top-level code and processPath.                 *)
(***************************************************************************)
Init ==
    /\ argv \in InputPaths
    /\ cwd \in WorkingDirs
    /\ variant \in {"part_000", "part_001"}
    /\ reversed \in BOOLEAN
    /\ pc = "start"
    /\ stack = <<>>
    /\ dirStats = <<>>
    /\ globalStats = NewGlobalStats
    /\ fs = InitialFiles
    /\ inFlight = {}
    /\ calls = <<>>
    /\ dirCalls = <<>>
    /\ printed = {}
    /\ reported = FALSE
    /\ exitCode = -1
    /\ fatalError = "none"
    /\ faults = 0
    /\ failedDirs = {}
    /\ gPattern = ""
    /\ gText = ""
    /\ gResult = FALSE
    /\ rIn = PlainDoc
    /\ rDoc = PlainDoc
    /\ rLast = "none"
    /\ rRepeat = FALSE
    /\ tPath = <<>>
    /\ tResult = <<>>

\* if (!inputPath) { usage; process.exit(1) }
Usage ==
    /\ pc = "start"
    /\ argv = NoArg
    /\ pc' = "exited"
    /\ exitCode' = 1
    /\ UNCHANGED <<argv, cwd, variant, reversed, inFlight, fatalError, stack, dirStats, globalStats, fs,
                   calls, dirCalls, printed, reported, faults, failedDirs>>
    /\ UNCHANGED harnessVars

\* try { await processPath(inputPath) } is entered
Begin ==
    /\ pc = "start"
    /\ argv # NoArg
    /\ pc' = "processPath"
    /\ UNCHANGED <<argv, cwd, variant, reversed, inFlight, fatalError, stack, dirStats, globalStats, fs,
                   calls, dirCalls, printed, reported, exitCode, faults, failedDirs>>
    /\ UNCHANGED harnessVars

\* processPath throws (path not found, unsupported path type); the top-level
\* catch prints the fatal error and exits with 1
Fatal(message) ==
    /\ pc' = "exited"
    /\ exitCode' = 1
    /\ fatalError' = message
    /\ UNCHANGED <<argv, cwd, variant, reversed, inFlight, stack, dirStats, globalStats, fs,
                   calls, dirCalls, printed, reported, faults, failedDirs>>
    /\ UNCHANGED harnessVars

\* the code after the try block: the final report; the process ends with 0
Report ==
    /\ pc' = "exited"
    /\ reported' = TRUE
    /\ exitCode' = 0

\* a mutant of ProcessPathNotFound: the error is logged where it is thrown
\* and processPath returns, so the run goes on to the final report
ProcessPathNotFoundLogged ==
    /\ pc = "processPath"
    /\ KindOf(argv) = "missing"
    /\ Report
    /\ UNCHANGED <<argv, cwd, variant, reversed, inFlight, fatalError, stack, dirStats,
                   globalStats, fs, calls, dirCalls, printed, faults, failedDirs>>
    /\ UNCHANGED harnessVars

\* await access(absolutePath) throws: Error("Path not found: ...")
ProcessPathNotFound ==
    /\ pc = "processPath"
    /\ KindOf(argv) = "missing"
    /\ Fatal("Path not found")

\* the else branch: Error("Unsupported path type: ...")
ProcessPathUnsupported ==
    /\ pc = "processPath"
    /\ KindOf(argv) = "other"
    /\ Fatal("Unsupported path type")

\* pathStat.isFile(): await processFile(absolutePath); a throw reaches the
\* top-level catch
ProcessPathFile ==
    /\ pc = "processPath"
    /\ KindOf(argv) = "file"
    /\ \E fault \in FaultsOf(argv) :
        LET r == processFile(argv, fault)
        IN  /\ faults + FaultCost(fault) <= MaxFaults
            /\ faults' = faults + FaultCost(fault)
            /\ fs' = r.fs
            /\ globalStats' = r.globalStats
            /\ calls' = Append(calls, r.call)
            /\ pc' = "exited"
            /\ reported' = ~r.threw
            /\ exitCode' = IF r.threw THEN 1 ELSE 0
            /\ fatalError' = IF r.threw THEN r.call.outcome ELSE "none"
    /\ UNCHANGED <<argv, cwd, variant, reversed, inFlight, stack, dirStats, dirCalls, printed, failedDirs>>
    /\ UNCHANGED harnessVars

\* a processDirectory call starts: its frame, with a fresh dirStats
NewFrame(dirPath) == [dirPath |-> dirPath, phase |-> "readdir", entries |-> <<>>, i |-> 1]

SetStats(map, dirPath, stats) ==
    [q \in (DOMAIN map) \cup {dirPath} |-> IF q = dirPath THEN stats ELSE map[q]]

\* pathStat.isDirectory(): await processDirectory(absolutePath, 0)
ProcessPathDirectory ==
    /\ pc = "processPath"
    /\ KindOf(argv) = "dir"
    /\ pc' = "walk"
    /\ stack' = <<NewFrame(argv)>>
    /\ dirStats' = SetStats(dirStats, argv, NewDirStats)
    /\ dirCalls' = Append(dirCalls, argv)
    /\ UNCHANGED <<argv, cwd, variant, reversed, inFlight, fatalError, globalStats, fs, calls, printed,
                   reported, exitCode, faults, failedDirs>>
    /\ UNCHANGED harnessVars

(***************************************************************************)
(* processDirectory, one step per suspension point and per loop entry.     *)
(* The innermost frame is the call in progress; a frame waits at entry i   *)
(* while the recursive call for that entry runs.                           *)
(***************************************************************************)
Top == stack[Len(stack)]

\* a mutant of Entry: the loop reads the directory as it goes, so it sees
\* the directory as it is now and not as readdir returned it
EntryLive == readdir(Top.dirPath)[Top.i]

\* for (const entry of entries): the entry the loop stands at
Entry == Top.entries[Top.i]

FullPath == Append(Top.dirPath, Entry.name)

RelativePath == relative(cwd, FullPath)

InLoop ==
    /\ pc = "walk"
    /\ Len(stack) > 0
    /\ Top.phase = "loop"
    /\ Top.i <= Len(Top.entries)

\* continue: the loop moves to the next entry
NextEntry(frames) == [frames EXCEPT ![Len(frames)].i = @ + 1]

\* the innermost call returns to its caller: to the loop of the parent
\* directory, where part_001 counts the subdirectory, or to processPath
ReturnStack == IF Len(stack) = 1 THEN <<>> ELSE NextEntry(SubSeq(stack, 1, Len(stack) - 1))

ReturnDirStats(map) ==
    IF Len(stack) = 1 THEN map
    ELSE LET parent == stack[Len(stack) - 1].dirPath
         IN  [map EXCEPT ![parent] = CountSubdirectory(@)]

ReturnGlobalStats == IF Len(stack) = 1 THEN globalStats ELSE CountDirectory(globalStats)

\* const entries = await readdir(dirPath, { withFileTypes: true })
Readdir ==
    /\ pc = "walk"
    /\ Len(stack) > 0
    /\ Top.phase = "readdir"
    /\ stack' = [stack EXCEPT ![Len(stack)] =
                    [@ EXCEPT !.phase = "loop", !.entries = readdir(Top.dirPath)]]
    /\ UNCHANGED <<argv, cwd, variant, reversed, inFlight, fatalError, pc, dirStats, globalStats, fs, calls,
                   dirCalls, printed, reported, exitCode, faults, failedDirs>>
    /\ UNCHANGED harnessVars

\* a mutant of ReaddirFails: nothing catches what readdir throws, and the
\* error ends the run at the top-level catch
ReaddirFailsUncaught ==
    /\ pc = "walk"
    /\ Len(stack) > 0
    /\ Top.phase = "readdir"
    /\ faults < MaxFaults
    /\ faults' = faults + 1
    /\ failedDirs' = failedDirs \cup {[dirPath |-> Top.dirPath, after |-> Len(calls)]}
    /\ stack' = <<>>
    /\ pc' = "exited"
    /\ exitCode' = 1
    /\ UNCHANGED <<argv, cwd, variant, reversed, inFlight, fatalError, dirStats, globalStats, fs, calls,
                   dirCalls, printed, reported>>
    /\ UNCHANGED harnessVars

\* readdir throws: the outer catch logs and returns, without a summary
ReaddirFails ==
    /\ pc = "walk"
    /\ Len(stack) > 0
    /\ Top.phase = "readdir"
    /\ faults < MaxFaults
    /\ faults' = faults + 1
    /\ failedDirs' = failedDirs \cup {[dirPath |-> Top.dirPath, after |-> Len(calls)]}
    /\ stack' = ReturnStack
    /\ dirStats' = ReturnDirStats(dirStats)
    /\ globalStats' = ReturnGlobalStats
    /\ UNCHANGED <<argv, cwd, variant, reversed, inFlight, fatalError, pc, fs, calls, dirCalls, printed,
                   reported, exitCode>>
    /\ UNCHANGED harnessVars

\* a mutant of EntryIsSkippedDirectory: the rule is handed the relative path
EntryIsSkippedDirectoryByPath == shouldSkipDirectory(RelativePath)

\* shouldSkipDirectory(entry.name): the rule sees the entry's base name
EntryIsSkippedDirectory == shouldSkipDirectory(Entry.name)

\* entry.isDirectory() && shouldSkipDirectory(entry.name): continue
SkipDirectoryByName ==
    /\ InLoop
    /\ Entry.kind = "dir"
    /\ EntryIsSkippedDirectory
    /\ stack' = NextEntry(stack)
    /\ UNCHANGED <<argv, cwd, variant, reversed, inFlight, fatalError, pc, dirStats, globalStats, fs, calls,
                   dirCalls, printed, reported, exitCode, faults, failedDirs>>
    /\ UNCHANGED harnessVars

\* entry.isDirectory() && shouldSkipPath(relativePath): continue
SkipDirectoryByGlob ==
    /\ InLoop
    /\ Entry.kind = "dir"
    /\ ~EntryIsSkippedDirectory
    /\ shouldSkipPath(RelativePath)
    /\ stack' = NextEntry(stack)
    /\ UNCHANGED <<argv, cwd, variant, reversed, inFlight, fatalError, pc, dirStats, globalStats, fs, calls,
                   dirCalls, printed, reported, exitCode, faults, failedDirs>>
    /\ UNCHANGED harnessVars

\* await processDirectory(fullPath, depth + 1) is entered
EnterSubdirectory ==
    /\ InLoop
    /\ Entry.kind = "dir"
    /\ ~EntryIsSkippedDirectory
    /\ ~shouldSkipPath(RelativePath)
    /\ stack' = Append(stack, NewFrame(FullPath))
    /\ dirStats' = SetStats(dirStats, FullPath, NewDirStats)
    /\ dirCalls' = Append(dirCalls, FullPath)
    /\ UNCHANGED <<argv, cwd, variant, reversed, inFlight, fatalError, pc, globalStats, fs, calls, printed,
                   reported, exitCode, faults, failedDirs>>
    /\ UNCHANGED harnessVars

\* entry.isFile() && shouldSkipPath(relativePath): continue; part_001 has
\* counted the file as encountered before the check
SkipFileByGlob ==
    /\ InLoop
    /\ Entry.kind = "file"
    /\ shouldSkipPath(RelativePath)
    /\ dirStats' = [dirStats EXCEPT ![Top.dirPath] = CountEncountered(@)]
    /\ globalStats' = CountEncountered(globalStats)
    /\ stack' = NextEntry(stack)
    /\ UNCHANGED <<argv, cwd, variant, reversed, inFlight, fatalError, pc, fs, calls, dirCalls, printed,
                   reported, exitCode, faults, failedDirs>>
    /\ UNCHANGED harnessVars

\* a mutant of StartProcessFile: processFile is called without await, so
\* the loop goes on to the next entry while the call runs
StartProcessFileNoAwait ==
    /\ InLoop
    /\ Entry.kind = "file"
    /\ ~shouldSkipPath(RelativePath)
    /\ isJSFile(FullPath)
    /\ FullPath \notin inFlight
    /\ inFlight' = inFlight \cup {FullPath}
    /\ dirStats' = [dirStats EXCEPT ![Top.dirPath] = CountFound(CountEncountered(@))]
    /\ globalStats' = CountFound(CountEncountered(globalStats))
    /\ stack' = NextEntry(stack)
    /\ UNCHANGED <<argv, cwd, variant, reversed, fatalError, pc, fs, calls,
                   dirCalls, printed, reported, exitCode, faults, failedDirs>>
    /\ UNCHANGED harnessVars

\* isJSFile(fullPath): the file is counted as found, then processFile is
\* called and the loop waits at await processFile(fullPath)
StartProcessFile ==
    /\ InLoop
    /\ Entry.kind = "file"
    /\ ~shouldSkipPath(RelativePath)
    /\ isJSFile(FullPath)
    /\ FullPath \notin inFlight
    /\ inFlight' = inFlight \cup {FullPath}
    /\ dirStats' = [dirStats EXCEPT ![Top.dirPath] = CountFound(CountEncountered(@))]
    /\ globalStats' = CountFound(CountEncountered(globalStats))
    /\ UNCHANGED <<argv, cwd, variant, reversed, fatalError, pc, stack, fs, calls,
                   dirCalls, printed, reported, exitCode, faults, failedDirs>>
    /\ UNCHANGED harnessVars

\* the directory's counters after processFile returned or threw
AfterProcessFile(stats, threw) ==
    IF threw THEN CountError(stats) ELSE CountSuccess(stats)

\* a mutant of ProcessJSFile: no try block around the processFile call, so
\* what it throws reaches the catch around the loop and the call returns
ProcessJSFileAbortsDirectory ==
    /\ InLoop
    /\ Entry.kind = "file"
    /\ ~shouldSkipPath(RelativePath)
    /\ isJSFile(FullPath)
    /\ FullPath \in inFlight
    /\ inFlight' = inFlight \ {FullPath}
    /\ \E fault \in FaultsOf(FullPath) :
        LET r == processFile(FullPath, fault)
        IN  /\ faults + FaultCost(fault) <= MaxFaults
            /\ faults' = faults + FaultCost(fault)
            /\ fs' = r.fs
            /\ calls' = Append(calls, r.call)
            /\ IF r.threw
               THEN /\ stack' = ReturnStack
                    /\ dirStats' = ReturnDirStats(dirStats)
                    /\ globalStats' =
                        (IF Len(stack) = 1 THEN r.globalStats
                         ELSE CountDirectory(r.globalStats))
               ELSE /\ stack' = NextEntry(stack)
                    /\ dirStats' = [dirStats EXCEPT ![Top.dirPath] = CountSuccess(@)]
                    /\ globalStats' = r.globalStats
    /\ UNCHANGED <<argv, cwd, variant, reversed, fatalError, pc, dirCalls, printed,
                   reported, exitCode, failedDirs>>
    /\ UNCHANGED harnessVars

\* await processFile(fullPath) settles: the call returned or threw, the try
\* block or its catch counts the outcome, and the loop moves on
ProcessJSFile ==
    /\ InLoop
    /\ Entry.kind = "file"
    /\ ~shouldSkipPath(RelativePath)
    /\ isJSFile(FullPath)
    /\ FullPath \in inFlight
    /\ inFlight' = inFlight \ {FullPath}
    /\ \E fault \in FaultsOf(FullPath) :
        LET r == processFile(FullPath, fault)
        IN  /\ faults + FaultCost(fault) <= MaxFaults
            /\ faults' = faults + FaultCost(fault)
            /\ fs' = r.fs
            /\ globalStats' = r.globalStats
            /\ dirStats' = [dirStats EXCEPT ![Top.dirPath] = AfterProcessFile(@, r.threw)]
            /\ calls' = Append(calls, r.call)
    /\ stack' = NextEntry(stack)
    /\ UNCHANGED <<argv, cwd, variant, reversed, fatalError, pc, dirCalls, printed,
                   reported, exitCode, failedDirs>>
    /\ UNCHANGED harnessVars

\* a file that is not a JS file: part_000 ignores it, part_001 counts it as
\* encountered and as a skipped non-JS file
PassNonJSFile ==
    /\ InLoop
    /\ Entry.kind = "file"
    /\ ~shouldSkipPath(RelativePath)
    /\ ~isJSFile(FullPath)
    /\ dirStats' = [dirStats EXCEPT ![Top.dirPath] = CountNonJS(CountEncountered(@))]
    /\ globalStats' = CountNonJS(CountEncountered(globalStats))
    /\ stack' = NextEntry(stack)
    /\ UNCHANGED <<argv, cwd, variant, reversed, inFlight, fatalError, pc, fs, calls, dirCalls, printed,
                   reported, exitCode, faults, failedDirs>>
    /\ UNCHANGED harnessVars

\* an entry that is neither a directory nor a regular file: nothing happens
PassOtherEntry ==
    /\ InLoop
    /\ Entry.kind = "other"
    /\ stack' = NextEntry(stack)
    /\ UNCHANGED <<argv, cwd, variant, reversed, inFlight, fatalError, pc, dirStats, globalStats, fs, calls,
                   dirCalls, printed, reported, exitCode, faults, failedDirs>>
    /\ UNCHANGED harnessVars

\* whether the directory summary is printed: part_000 prints it only when
\* JS files were found
PrintsSummary(stats) == variant = "part_001" \/ stats.filesProcessed > 0

\* the loop is over: the summary, then the call returns
EndOfDirectory ==
    /\ pc = "walk"
    /\ Len(stack) > 0
    /\ Top.phase = "loop"
    /\ Top.i > Len(Top.entries)
    /\ printed' = IF PrintsSummary(dirStats[Top.dirPath])
                  THEN printed \cup {Top.dirPath} ELSE printed
    /\ stack' = ReturnStack
    /\ dirStats' = ReturnDirStats(dirStats)
    /\ globalStats' = ReturnGlobalStats
    /\ UNCHANGED <<argv, cwd, variant, reversed, inFlight, fatalError, pc, fs, calls, dirCalls, reported,
                   exitCode, faults, failedDirs>>
    /\ UNCHANGED harnessVars

\* processDirectory(absolutePath, 0) has returned to processPath, which
\* returns: the final report
Finish ==
    /\ pc = "walk"
    /\ Len(stack) = 0
    /\ Report
    /\ UNCHANGED <<argv, cwd, variant, reversed, inFlight, fatalError, stack, dirStats, globalStats, fs,
                   calls, dirCalls, printed, faults, failedDirs>>
    /\ UNCHANGED harnessVars

Next ==
    \/ Usage
    \/ Begin
    \/ ProcessPathNotFound
    \/ ProcessPathUnsupported
    \/ ProcessPathFile
    \/ ProcessPathDirectory
    \/ Readdir
    \/ ReaddirFails
    \/ SkipDirectoryByName
    \/ SkipDirectoryByGlob
    \/ EnterSubdirectory
    \/ SkipFileByGlob
    \/ StartProcessFile
    \/ ProcessJSFile
    \/ PassNonJSFile
    \/ PassOtherEntry
    \/ EndOfDirectory
    \/ Finish

Spec == Init /\ [][Next]_vars

(***************************************************************************)
(* The glob harness: matchGlob applied to one pattern of SKIP_PATHS and    *)
(* one relative path of at most MaxSegs names.                             *)
(***************************************************************************)
GlobNames == {"src", "test", "unit", "a.js", "a.test.js", "a.test.js.bak", ".."}

GlobPaths ==
    UNION {[1..n -> GlobNames] : n \in 1..MaxSegs}

InitGlob ==
    /\ argv = NoArg
    /\ cwd = <<"w">>
    /\ variant = "part_000"
    /\ reversed = FALSE
    /\ pc = "glob"
    /\ stack = <<>>
    /\ dirStats = <<>>
    /\ globalStats = NewGlobalStats
    /\ fs = InitialFiles
    /\ inFlight = {}
    /\ calls = <<>>
    /\ dirCalls = <<>>
    /\ printed = {}
    /\ reported = FALSE
    /\ exitCode = -1
    /\ fatalError = "none"
    /\ faults = 0
    /\ failedDirs = {}
    /\ gPattern \in {SKIP_PATHS[n] : n \in 1..Len(SKIP_PATHS)}
    /\ gText \in {JoinSlash(p) : p \in GlobPaths}
    /\ gResult = FALSE
    /\ rIn = PlainDoc
    /\ rDoc = PlainDoc
    /\ rLast = "none"
    /\ rRepeat = FALSE
    /\ tPath = <<>>
    /\ tResult = <<>>

MatchGlobCall ==
    /\ pc = "glob"
    /\ pc' = "globDone"
    /\ gResult' = matchGlob(gPattern, gText)
    /\ UNCHANGED <<gPattern, gText>>
    /\ UNCHANGED <<ruleVars, pathVars>>
    /\ UNCHANGED <<argv, cwd, variant, reversed, inFlight, fatalError, stack, dirStats, globalStats, fs,
                   calls, dirCalls, printed, reported, exitCode, faults, failedDirs>>

NextGlob == MatchGlobCall

SpecGlob == InitGlob /\ [][NextGlob]_vars

(***************************************************************************)
(* The rule harness: the rewrite rules of src/transforms applied, in any   *)
(* order and any number of times, to the root of one parsed document.      *)
(***************************************************************************)
walkerVars == <<argv, cwd, variant, reversed, inFlight, fatalError, stack, dirStats, globalStats, fs,
                calls, dirCalls, printed, reported, exitCode, faults, failedDirs>>

\* the walker's variables in a harness, where the walker does not run
WalkerIdle ==
    /\ argv = NoArg
    /\ cwd = <<"w">>
    /\ variant = "part_000"
    /\ reversed = FALSE
    /\ stack = <<>>
    /\ dirStats = <<>>
    /\ globalStats = NewGlobalStats
    /\ fs = InitialFiles
    /\ inFlight = {}
    /\ calls = <<>>
    /\ dirCalls = <<>>
    /\ printed = {}
    /\ reported = FALSE
    /\ exitCode = -1
    /\ fatalError = "none"
    /\ faults = 0
    /\ failedDirs = {}

Kinds == {"none", "value", "type", "typeof"}

KindSeqs(max) == UNION {[1..n -> Kinds] : n \in 0..max}

CommentLists ==
    {<<>>, <<" helper">>, <<" @flow strict", " helper", " $FlowFixMe[incompatible]">>,
     <<" @noflow">>}

ExportNodes ==
    {[exportKind |-> k, specifiers |-> ss] : k \in Kinds, ss \in KindSeqs(MaxSpecifiers)}

RuleDocs ==
    {[comments |-> cs, imports |-> is, exports |-> es] :
        cs \in CommentLists, is \in KindSeqs(MaxImports),
        es \in {<<>>} \cup {<<node>> : node \in ExportNodes}}

InitRules ==
    /\ WalkerIdle
    /\ pc = "rules"
    /\ gPattern = ""
    /\ gText = ""
    /\ gResult = FALSE
    /\ rIn \in RuleDocs
    /\ rDoc = rIn
    /\ rLast = "none"
    /\ rRepeat = FALSE
    /\ tPath = <<>>
    /\ tResult = <<>>

\* a rule is called on the root: it mutates the document in place
ApplyRule(name, result) ==
    /\ pc = "rules"
    /\ rDoc' = result
    /\ rLast' = name
    /\ rRepeat' = (rLast = name)
    /\ UNCHANGED <<pc, rIn>>
    /\ UNCHANGED <<walkerVars, globVars, pathVars>>

CleanupAnnotationsCall == ApplyRule("cleanupAnnotations", cleanupAnnotations(rDoc))

CleanupImportsCall == ApplyRule("cleanupImports", cleanupImports(rDoc))

CleanupExportsCall == ApplyRule("cleanupExports", cleanupExports(rDoc))

\* transform on the text of the document: parse, rewrite, serialize; the
\* harness parses what it returned
TransformCall == ApplyRule("transform", Parse(transform(toSource(rDoc))))

NextRules ==
    \/ CleanupAnnotationsCall
    \/ CleanupImportsCall
    \/ CleanupExportsCall
    \/ TransformCall

SpecRules == InitRules /\ [][NextRules]_vars

(***************************************************************************)
(* The path harness: createTransformedFilePath applied to one path.        *)
(***************************************************************************)
PathDirNames == {"a", "b", "v1.2"}

PathFileNames ==
    {"Foo.jsx", "c.js", "a.test.js", "README", ".eslintrc", "x.JS", "notes.",
     "c_transformed.js"}

PathInputs ==
    {Append(dir, name) :
        dir \in UNION {[1..n -> PathDirNames] : n \in 0..MaxDepth},
        name \in PathFileNames}

InitPath ==
    /\ WalkerIdle
    /\ pc = "path"
    /\ gPattern = ""
    /\ gText = ""
    /\ gResult = FALSE
    /\ rIn = PlainDoc
    /\ rDoc = PlainDoc
    /\ rLast = "none"
    /\ rRepeat = FALSE
    /\ tPath \in PathInputs
    /\ tResult = <<>>

CreateTransformedFilePathCall ==
    /\ pc = "path"
    /\ pc' = "pathDone"
    /\ tResult' = createTransformedFilePath(tPath)
    /\ UNCHANGED tPath
    /\ UNCHANGED <<walkerVars, globVars, ruleVars>>

NextPath == CreateTransformedFilePathCall

SpecPath == InitPath /\ [][NextPath]_vars

(***************************************************************************)
(* Claims.                                                                 *)
(***************************************************************************)
RECURSIVE SumSucceeded(_)
SumSucceeded(ds) ==
    IF ds = {} THEN 0
    ELSE LET d == CHOOSE x \in ds : TRUE
         IN  Succeeded(dirStats[d]) + SumSucceeded(ds \ {d})

RECURSIVE SumFailed(_)
SumFailed(ds) ==
    IF ds = {} THEN 0
    ELSE LET d == CHOOSE x \in ds : TRUE
         IN  Failed(dirStats[d]) + SumFailed(ds \ {d})

DirectoryRunDone == pc = "exited" /\ Len(dirCalls) > 0

\* C1: when a directory run has finished, the success counts of all visited
\* directories add up to the global success count and their error counts to
\* the global error count, so the sums of both agree as well.
C1_DirSumsEqualGlobal ==
    DirectoryRunDone =>
        /\ SumSucceeded(DOMAIN dirStats) = Succeeded(globalStats)
        /\ SumFailed(DOMAIN dirStats) = Failed(globalStats)
        /\ SumSucceeded(DOMAIN dirStats) + SumFailed(DOMAIN dirStats)
            = Succeeded(globalStats) + Failed(globalStats)

\* the entry the loop is at is one shouldSkipPath is true of
AtGlobSkippedEntry ==
    /\ InLoop
    /\ Entry.kind \in {"file", "dir"}
    /\ shouldSkipPath(RelativePath)

\* C2: a step taken at a file or directory entry whose relative path
\* shouldSkipPath is true of calls neither processFile nor processDirectory
\* and changes no counter of any dirStats or of globalStats.
C2_GlobSkippedLeavesNoTrace ==
    [][AtGlobSkippedEntry =>
          /\ calls' = calls
          /\ dirCalls' = dirCalls
          /\ dirStats' = dirStats
          /\ globalStats' = globalStats]_vars

RECURSIVE RefGlobFrom(_, _, _, _)
\* the glob semantics the specification gives: "**" is any run of characters,
\* "*" any run without "/", "?" one character other than "/", anything else
\* itself; the whole of text from j must match pattern from i
RefGlobFrom(pattern, i, text, j) ==
    IF i > Len(pattern) THEN j > Len(text)
    ELSE IF i < Len(pattern) /\ SubSeq(pattern, i, i + 1) = "**"
    THEN \E k \in j..(Len(text) + 1) : RefGlobFrom(pattern, i + 2, text, k)
    ELSE IF Ch(pattern, i) = "*"
    THEN \/ RefGlobFrom(pattern, i + 1, text, j)
         \/ /\ j <= Len(text)
            /\ Ch(text, j) # "/"
            /\ RefGlobFrom(pattern, i, text, j + 1)
    ELSE IF Ch(pattern, i) = "?"
    THEN /\ j <= Len(text)
         /\ Ch(text, j) # "/"
         /\ RefGlobFrom(pattern, i + 1, text, j + 1)
    ELSE /\ j <= Len(text)
         /\ Ch(text, j) = Ch(pattern, i)
         /\ RefGlobFrom(pattern, i + 1, text, j + 1)

RefGlob(pattern, text) == RefGlobFrom(pattern, 1, text, 1)

\* C3: for every pattern of SKIP_PATHS and every relative path, matchGlob
\* returns what the reference glob matcher returns.
C3_MatchGlobIsReference ==
    pc = "globDone" => gResult = RefGlob(gPattern, gText)

CallPaths == {calls[n].path : n \in 1..Len(calls)}

IsPrefix(a, b) == Len(a) <= Len(b) /\ SubSeq(b, 1, Len(a)) = a

\* C4 as claimed: no directory with a skipped base name is ever handed to
\* processDirectory, and no file beneath one is ever handed to processFile.
C4_SkippedNameNeverProcessed ==
    /\ \A n \in 1..Len(dirCalls) : ~shouldSkipDirectory(basename(dirCalls[n]))
    /\ \A n \in 1..Len(calls) :
        \A k \in 1..(Len(calls[n].path) - 1) : ~shouldSkipDirectory(calls[n].path[k])

\* C4, amended: below the input path, no directory entry with a skipped base
\* name (in SKIP_DIRS, or starting with ".") is handed to processDirectory,
\* and no file beneath such an entry is handed to processFile; the input
\* path itself is not subject to the rule.
C4_SkippedNameBelowInput ==
    /\ \A n \in 2..Len(dirCalls) : ~shouldSkipDirectory(basename(dirCalls[n]))
    /\ \A n \in 1..Len(calls) :
        \A k \in (Len(argv) + 1)..(Len(calls[n].path) - 1) :
            ~shouldSkipDirectory(calls[n].path[k])

\* a walk of w is over, having passed node_modules and .git and having
\* processed files beside them
C4_Witness ==
    /\ DirectoryRunDone
    /\ argv = <<"w">>
    /\ failedDirs = {}
    /\ <<"w", "sub", "deep", "e.JS">> \in CallPaths
    /\ <<"w", "a.js">> \in CallPaths

RECURSIVE ExpectedFiles(_)
\* the files a walk of dir hands to processFile, read off the initial tree:
\* nothing beneath a directory whose readdir threw, a skipped directory or a
\* glob-skipped path; every other JS file
ExpectedFiles(dir) ==
    IF \E f \in failedDirs : f.dirPath = dir THEN {}
    ELSE UNION {
        LET path == Append(dir, Listing(dir)[n])
            rel  == relative(cwd, path)
        IN  IF path \in Dirs
            THEN IF shouldSkipDirectory(basename(path)) \/ shouldSkipPath(rel)
                 THEN {} ELSE ExpectedFiles(path)
            ELSE IF path \in DOMAIN InitialFiles /\ ~shouldSkipPath(rel) /\ isJSFile(path)
                 THEN {path} ELSE {}
        : n \in 1..Len(Listing(dir))}

CallsIn(dir, outcomes) ==
    {n \in 1..Len(calls) : dirname(calls[n].path) = dir /\ calls[n].outcome \in outcomes}

FailureOutcomes == {"readFailure", "parseFailure", "serializeFailure", "writeFailure"}

\* C5: every failed processFile call adds one to the error counter of the
\* directory that holds the file and nothing to its success counter, and the
\* walk goes on: when the run is over, every file the walk was to visit has
\* been handed to processFile, whatever failed on the way.
C5_FailureCountedWalkContinues ==
    /\ \A d \in DOMAIN dirStats :
        /\ Failed(dirStats[d]) = Cardinality(CallsIn(d, FailureOutcomes))
        /\ Succeeded(dirStats[d]) = Cardinality(CallsIn(d, {"success"}))
    /\ DirectoryRunDone => CallPaths = ExpectedFiles(argv)

\* a walk is over in which a file failed and a file of an ancestor directory
\* was processed after it
C5_Witness ==
    /\ DirectoryRunDone
    /\ \E n \in 1..Len(calls) : \E m \in (n + 1)..Len(calls) :
        /\ calls[n].outcome \in FailureOutcomes
        /\ Len(calls[m].path) < Len(calls[n].path)
        /\ IsPrefix(dirname(calls[m].path), dirname(calls[n].path))

FatalInput == argv = NoArg \/ KindOf(argv) \in {"missing", "other"}

\* C6: a run ends with exit code 1 only for a missing argument, a path that
\* does not exist or a path of an unsupported kind; every other run, whatever
\* fails for single files, reaches the final report and ends with 0.
C6_FileErrorsNeverFatal ==
    pc = "exited" =>
        /\ exitCode = 1 <=> FatalInput
        /\ ~FatalInput => (exitCode = 0 /\ reported)

\* the eligible input files of a run: the files a walk of the input directory
\* is to visit, or the input file
RunInputs ==
    IF argv \in Dirs THEN ExpectedFiles(argv)
    ELSE IF argv \in DOMAIN InitialFiles THEN {argv}
    ELSE {}

\* C7 as claimed: every eligible input file of the run is still there, with
\* the content it had before the run.
C7_InputsKeepContent ==
    \A path \in RunInputs : path \in DOMAIN fs /\ fs[path] = InitialFiles[path]

WritingOutcomes == {"success", "writeFailure"}

\* C7, amended: processFile never writes to the file it processes (the
\* target createTransformedFilePath gives always differs from it), no file
\* is deleted, and a file that was there before the run has changed only if
\* its path is the derived output path of a processed file, as
\* a_transformed.js is beside a.js.
C7_OnlyDerivedPathsChange ==
    /\ \A n \in 1..Len(calls) :
        /\ calls[n].target = createTransformedFilePath(calls[n].path)
        /\ calls[n].target # calls[n].path
    /\ \A path \in DOMAIN InitialFiles :
        /\ path \in DOMAIN fs
        /\ fs[path] # InitialFiles[path] =>
            \E n \in 1..Len(calls) :
                /\ calls[n].target = path
                /\ calls[n].outcome \in WritingOutcomes

\* a.js was processed and its output has replaced the a_transformed.js that
\* was there
C7_Witness ==
    /\ \E n \in 1..Len(calls) :
        calls[n].path = <<"w", "a.js">> /\ calls[n].outcome = "success"
    /\ fs[<<"w", "a_transformed.js">>] # InitialFiles[<<"w", "a_transformed.js">>]
    /\ fs[<<"w", "a.js">>] = InitialFiles[<<"w", "a.js">>]

LastCall == calls[Len(calls)]

\* C8: a processFile call in which parsing or serializing fails writes
\* nothing: the disk after the call is the disk before it.
C8_NoWriteOnParseFailure ==
    [][(Len(calls') = Len(calls) + 1
            /\ LastCall'.outcome \in {"parseFailure", "serializeFailure"})
          => fs' = fs]_vars

\* a run in which one file failed to parse and another to serialize
C8_Witness ==
    /\ \E n \in 1..Len(calls) : calls[n].outcome = "parseFailure"
    /\ \E n \in 1..Len(calls) : calls[n].outcome = "serializeFailure"

\* C9: a readdir that throws ends only that processDirectory call: the run
\* still ends with the report and exit code 0, no file beneath the directory
\* is processed, every file outside it is, and the step in which readdir
\* throws changes neither the disk, nor the processFile history, nor any
\* success or error count.
C9_ReaddirFailureIsLocal ==
    /\ [](/\ \A f \in failedDirs : \A path \in CallPaths : ~IsPrefix(f.dirPath, path)
          /\ DirectoryRunDone =>
                /\ exitCode = 0
                /\ reported
                /\ CallPaths = ExpectedFiles(argv))
    /\ [][failedDirs' # failedDirs =>
            /\ fs' = fs
            /\ calls' = calls
            /\ pc' = "walk"
            /\ \A d \in DOMAIN dirStats :
                /\ Succeeded(dirStats'[d]) = Succeeded(dirStats[d])
                /\ Failed(dirStats'[d]) = Failed(dirStats[d])
                /\ Found(dirStats'[d]) = Found(dirStats[d])]_vars

\* a walk is over in which the readdir of a subdirectory threw after some
\* files had been processed, and files were processed after it
C9_Witness ==
    /\ DirectoryRunDone
    /\ \E f \in failedDirs :
        /\ f.dirPath # argv
        /\ f.after > 0
        /\ Len(calls) > f.after

Pipeline(doc) == cleanupExports(cleanupImports(cleanupAnnotations(doc)))

HasTypeOnly(doc) ==
    \/ \E n \in 1..Len(doc.comments) : IsPragma(doc.comments[n])
    \/ \E n \in 1..Len(doc.imports) : doc.imports[n] \in {"type", "typeof"}
    \/ \E n \in 1..Len(doc.exports) : doc.exports[n].exportKind \in {"type", "typeof"}

\* C10: what a successful processFile call writes is the serialization of
\* the parsed document after the three rewrite rules, so no written text
\* holds a pragma comment, a type-only import or a type-only named export.
C10_OutputIsPipelineResult ==
    \A n \in 1..Len(calls) :
        calls[n].outcome = "success" =>
            /\ calls[n].output = toSource(Pipeline(Parse(calls[n].source)))
            /\ ~HasTypeOnly(Parse(calls[n].output))

(***************************************************************************)
(* Claims about the rewrite rules and the path derivation.                 *)
(***************************************************************************)
TypeOnly == {"type", "typeof"}

\* C11: once cleanupExports has run on a document, no named-export
\* declaration and no specifier of one is left type-only: both levels are
\* value exports, whatever kinds the declaration and its specifiers had.
C11_ExportLevelsAgree ==
    rLast = "cleanupExports" =>
        \A n \in 1..Len(rDoc.exports) :
            /\ rDoc.exports[n].exportKind \notin TypeOnly
            /\ \A m \in 1..Len(rDoc.exports[n].specifiers) :
                rDoc.exports[n].specifiers[m] \notin TypeOnly

(***************************************************************************)
(* Claims about the walk.                                                  *)
(***************************************************************************)
\* the loop of the innermost processDirectory call stands at a regular file
\* that isJSFile rejects
AtNonJSFile ==
    /\ InLoop
    /\ Entry.kind = "file"
    /\ ~isJSFile(FullPath)

\* C12: a file whose extension is neither .js nor .jsx (in any case), or that
\* has no extension, is invisible to a directory run: the step of the loop
\* over such an entry calls processFile for nothing, writes nothing and
\* changes no counter of any dirStats or of globalStats.
C12_NonJSFilesInvisible ==
    [][AtNonJSFile => UNCHANGED <<dirStats, globalStats, calls, fs>>]_vars

(***************************************************************************)
(* Claims about createTransformedFilePath.                                 *)
(***************************************************************************)
\* name splits at k into the base name without extension and the extension:
\* the extension starts at the last dot, unless that dot leads the name or
\* there is none, and then it is empty
SplitsAtExtension(name, k) ==
    \/ /\ k = Len(name) + 1
       /\ \A i \in 2..Len(name) : Ch(name, i) # "."
    \/ /\ k \in 2..Len(name)
       /\ Ch(name, k) = "."
       /\ \A i \in (k + 1)..Len(name) : Ch(name, i) # "."

\* C13: createTransformedFilePath returns a path in the same directory whose
\* file name is the base name without its extension, then "_transformed",
\* then the extension as it was; /a/b/Foo.jsx gives /a/b/Foo_transformed.jsx
\* and /a/b/c.js gives /a/b/c_transformed.js; the result is never the input.
C13_DerivedPath ==
    pc = "pathDone" =>
        LET name == tPath[Len(tPath)]
        IN  /\ Len(tResult) = Len(tPath)
            /\ SubSeq(tResult, 1, Len(tResult) - 1) = SubSeq(tPath, 1, Len(tPath) - 1)
            /\ \E k \in 1..(Len(name) + 1) :
                /\ SplitsAtExtension(name, k)
                /\ tResult[Len(tResult)] =
                    SubSeq(name, 1, k - 1) \o "_transformed" \o SubSeq(name, k, Len(name))
            /\ tResult # tPath
            /\ tPath = <<"a", "b", "Foo.jsx">> => tResult = <<"a", "b", "Foo_transformed.jsx">>
            /\ tPath = <<"a", "b", "c.js">> => tResult = <<"a", "b", "c_transformed.js">>

C13_Witness ==
    /\ pc = "pathDone"
    /\ tPath = <<"a", "b", "Foo.jsx">>
    /\ tResult = <<"a", "b", "Foo_transformed.jsx">>

\* the input path names nothing, or something that is neither a regular
\* file nor a directory
ResolutionFails == argv # NoArg /\ KindOf(argv) \in {"missing", "other"}

\* C14: a run whose input path does not exist or is of an unsupported kind
\* never calls processFile or processDirectory, writes no file, prints no
\* directory summary and no final report; it ends with exit code 1 after the
\* fatal error of its case, path not found or unsupported path type.
C14_FatalResolution ==
    ResolutionFails =>
        /\ calls = <<>>
        /\ dirCalls = <<>>
        /\ printed = {}
        /\ ~reported
        /\ fs = InitialFiles
        /\ globalStats = NewGlobalStats
        /\ pc = "exited" =>
            /\ exitCode = 1
            /\ KindOf(argv) = "missing" => fatalError = "Path not found"
            /\ KindOf(argv) = "other" => fatalError = "Unsupported path type"

C14_Witness ==
    /\ pc = "exited"
    /\ KindOf(argv) = "other"
    /\ exitCode = 1
    /\ fatalError = "Unsupported path type"

\* the files the run has created: on disk now, not there when it started
CreatedFiles == (DOMAIN fs) \ (DOMAIN InitialFiles)

\* C15: a directory run hands every file it is to visit to processFile
\* exactly once: no path occurs twice in the history of calls, whether the
\* first call failed or not, no call is for a file the run itself created,
\* and when the run is over there is one call for each file to visit.
C15_EachFileExactlyOnce ==
    Len(dirCalls) > 0 =>
        LET toVisit == ExpectedFiles(argv)
        IN  /\ \A m, n \in 1..Len(calls) : calls[m].path = calls[n].path => m = n
            /\ \A n \in 1..Len(calls) :
                /\ calls[n].path \in toVisit
                /\ calls[n].path \notin CreatedFiles
            /\ pc = "exited" => Len(calls) = Cardinality(toVisit)

\* a walk is over in which a call failed and in which an output file was
\* created in a directory whose later entries were still to be visited
C15_Witness ==
    /\ DirectoryRunDone
    /\ \E n \in 1..Len(calls) : calls[n].outcome \in FailureOutcomes
    /\ \E n \in 1..Len(calls) : \E m \in (n + 1)..Len(calls) :
        /\ calls[n].target \in CreatedFiles
        /\ dirname(calls[m].path) = dirname(calls[n].path)

\* the directories whose processDirectory call has returned
ReturnedDirs ==
    {dirCalls[n] : n \in 1..Len(dirCalls)} \ {stack[k].dirPath : k \in 1..Len(stack)}

\* the call was for a file in the subtree of dir
CallUnder(dir, call) == IsPrefix(dir, dirname(call.path))

\* every frame but the innermost waits in its loop, at the entry of the
\* directory the next frame walks
FramesAreNested ==
    \A k \in 2..Len(stack) :
        LET parent == stack[k - 1]
        IN  /\ parent.phase = "loop"
            /\ parent.i <= Len(parent.entries)
            /\ parent.entries[parent.i].kind = "dir"
            /\ stack[k].dirPath = Append(parent.dirPath, parent.entries[parent.i].name)

\* the calls for the files of a subtree are not interleaved with others
SubtreesAreContiguous ==
    \A dir \in Dirs : \A n \in 1..Len(calls) : \A m \in (n + 1)..Len(calls) :
        (CallUnder(dir, calls[n]) /\ CallUnder(dir, calls[m])) =>
            \A j \in n..m : CallUnder(dir, calls[j])

\* C16: the walk is sequential and depth-first.  At most one processFile call
\* is in progress, and it is the call for the entry the innermost loop waits
\* at; while it is in progress the only step is that it settles, and only
\* then the loop moves to the next entry.  Frames are nested, a step never
\* touches a frame that waits for a subdirectory, a directory returns only
\* when every file to visit in its subtree has been processed, and the calls
\* of a subtree are contiguous in the history.
C16_SequentialDepthFirst ==
    /\ [](/\ Cardinality(inFlight) <= 1
          /\ inFlight # {} => (InLoop /\ inFlight = {FullPath})
          /\ FramesAreNested
          /\ SubtreesAreContiguous
          /\ \A dir \in ReturnedDirs : ExpectedFiles(dir) \subseteq CallPaths)
    /\ [][/\ inFlight # {} =>
                /\ inFlight' = {}
                /\ Len(calls') = Len(calls) + 1
                /\ calls'[Len(calls')].path \in inFlight
                /\ stack' = NextEntry(stack)
          /\ \A k \in 1..(Len(stack) - 1) : k < Len(stack') => stack'[k] = stack[k]
         ]_vars

\* the call for w/sub/deep/e.JS is in progress, two directories below the
\* input directory, after files of the input directory were processed
C16_Witness ==
    /\ inFlight = {<<"w", "sub", "deep", "e.JS">>}
    /\ Len(stack) = 3
    /\ \E n \in 1..Len(calls) : dirname(calls[n].path) = <<"w">>

\* C17: each rewrite rule is idempotent.  A rule called right after itself
\* leaves the document as its first call left it, and so does transform
\* called on its own output; after cleanupAnnotations no pragma comment is
\* left, after cleanupImports no type-only import, after cleanupExports no
\* type-only named-export declaration; and the three rules in a row, run on
\* their own result, yield that result.
C17_RulesAreIdempotent ==
    /\ [][(pc = "rules" /\ rLast' = rLast) => rDoc' = rDoc]_vars
    /\ [](/\ rLast \in {"cleanupAnnotations", "transform"} =>
                \A n \in 1..Len(rDoc.comments) : ~IsPragma(rDoc.comments[n])
          /\ rLast = "cleanupImports" =>
                \A n \in 1..Len(rDoc.imports) : rDoc.imports[n] \notin TypeOnly
          /\ rLast = "cleanupExports" =>
                \A n \in 1..Len(rDoc.exports) : rDoc.exports[n].exportKind \notin TypeOnly
          /\ Pipeline(Pipeline(rDoc)) = Pipeline(rDoc))

\* a rule was called twice in a row on a document its first call changed
C17_Witness ==
    /\ rRepeat
    /\ rLast = "cleanupAnnotations"
    /\ Len(rDoc.comments) < Len(rIn.comments)

\* filesProcessed == filesTransformed + filesWithError + filesSkipped
Balanced(stats) ==
    stats.filesProcessed
        = stats.filesTransformed + stats.filesWithError + stats.filesSkipped

\* the dirStats half of C18: no call is in progress, so every loop stands
\* between two entries or has ended
DirStatsBalanced ==
    (variant = "part_000" /\ inFlight = {}) =>
        \A d \in DOMAIN dirStats :
            Balanced(dirStats[d]) /\ dirStats[d].filesSkipped = 0

\* C18: in the walker of part_000, whenever a directory's loop stands between
\* two entries and when its summary is printed, the directory's filesProcessed
\* is the sum of its filesTransformed, filesWithError and filesSkipped, and
\* filesSkipped is 0; at the end of a directory run the same sum holds for
\* globalStats.
C18_CountersBalance ==
    /\ DirStatsBalanced
    /\ (variant = "part_000" /\ DirectoryRunDone) => Balanced(globalStats)

====
